---- MODULE Spec2Model ----
(***************************************************************************)
(* diff-poetry-lock: the diff / format / reconcile pipeline of             *)
(* src/diff_poetry_lock/run_poetry.py and src/diff_poetry_lock/github.py,  *)
(* with the pull-request number resolution of settings.py.                 *)
(*                                                                         *)
(* Conventions.  A Python str that is a comment body is a sequence of      *)
(* lines (the text split at "\n"); each line is a record whose kind field  *)
(* names the fixed wording and whose other fields are the interpolated     *)
(* values.  Package names are numbered in their ordinal string order, so   *)
(* that < on names is Python's str <.  Versions are opaque strings.        *)
(***************************************************************************)
EXTENDS Integers, Sequences, FiniteSets, TLC

\* ------------------------------------------------------------ bounds
\* longest package list drawn for a lockfile in SpecFormat
MaxPkgs == 2
\* longest comment list a pull request starts with in Spec
MaxComments == 2
\* CI invocations in one behaviour of Spec
MaxRuns == 2
\* full pages a pull request's comment list may fill in SpecList
MaxFullPages == 2

\* ------------------------------------------------------------ values
\* Python None, for the str | None values that are modelled as strings
None == "None"
\* Python None for comment: str | None (a str is a sequence of lines here)
NoComment == <<[kind |-> "None"]>>

Names == {1, 2, 3}
Versions == {"1.0", "2.0"}
Package == [pretty_name : Names, full_pretty_version : Versions]

PackageLists == UNION {[1..n -> Package] : n \in 0..MaxPkgs}

UniqueNames(pkgs) ==
    \A i, j \in 1..Len(pkgs) : pkgs[i].pretty_name = pkgs[j].pretty_name => i = j

\* ------------------------------------------------------------ PackageSummary
PackageSummary(name, old, new) ==
    [name |-> name, old_version |-> old, new_version |-> new]

not_changed(p) == p.new_version = p.old_version

changed(p) == ~not_changed(p)

updated(p) == p.new_version # None /\ p.old_version # None /\ changed(p)

added(p) == p.new_version # None /\ p.old_version = None

removed(p) == p.new_version = None /\ p.old_version # None

summary_line(p) ==
    IF updated(p)
    THEN [kind |-> "Updated", name |-> p.name, old |-> p.old_version, new |-> p.new_version]
    ELSE IF added(p) /\ p.new_version # None
    THEN [kind |-> "Added", name |-> p.name, new |-> p.new_version]
    ELSE IF removed(p) /\ p.old_version # None
    THEN [kind |-> "Removed", name |-> p.name, old |-> p.old_version]
    ELSE IF p.new_version = None
    THEN [kind |-> "ValueError", msg |-> "Inconsistent State"]
    ELSE [kind |-> "Not changed", name |-> p.name, new |-> p.new_version]

\* ------------------------------------------------------------ diff
\* merged: dict[str, PackageSummary], a sequence in insertion order
HasKey(merged, name) == \E i \in 1..Len(merged) : merged[i].name = name

KeyIndex(merged, name) == CHOOSE i \in 1..Len(merged) : merged[i].name = name

\* merged[name] = value: a new key is appended, an old key keeps its place
SetItem(merged, name, value) ==
    IF HasKey(merged, name)
    THEN [merged EXCEPT ![KeyIndex(merged, name)] = value]
    ELSE Append(merged, value)

RECURSIVE MergeOld(_, _)
MergeOld(merged, old_packages) ==
    IF old_packages = <<>> THEN merged
    ELSE LET package == Head(old_packages) IN
         MergeOld(SetItem(merged, package.pretty_name,
                          PackageSummary(package.pretty_name,
                                         package.full_pretty_version, None)),
                  Tail(old_packages))

RECURSIVE MergeNew(_, _)
MergeNew(merged, new_packages) ==
    IF new_packages = <<>> THEN merged
    ELSE LET package == Head(new_packages) IN
         MergeNew(IF ~HasKey(merged, package.pretty_name)
                  THEN SetItem(merged, package.pretty_name,
                               PackageSummary(package.pretty_name, None,
                                              package.full_pretty_version))
                  ELSE [merged EXCEPT
                          ![KeyIndex(merged, package.pretty_name)].new_version =
                              package.full_pretty_version],
                  Tail(new_packages))

\* diff with line 66 lost: a name of new_packages always gets a fresh record
RECURSIVE MergeNewFresh(_, _)
MergeNewFresh(merged, new_packages) ==
    IF new_packages = <<>> THEN merged
    ELSE LET package == Head(new_packages) IN
         MergeNewFresh(SetItem(merged, package.pretty_name,
                               PackageSummary(package.pretty_name, None,
                                              package.full_pretty_version)),
                       Tail(new_packages))

diff_fresh(old_packages, new_packages) ==
    MergeNewFresh(MergeOld(<<>>, old_packages), new_packages)

diff(old_packages, new_packages) ==
    MergeNew(MergeOld(<<>>, old_packages), new_packages)

\* ------------------------------------------------------------ format_comment
\* p goes before the first entry whose name is not smaller: with the entries
\* inserted from the last to the first this is a stable sort, as sorted() is
RECURSIVE InsertByName(_, _)
InsertByName(p, s) ==
    IF s = <<>> THEN <<p>>
    ELSE IF Head(s).name < p.name
         THEN <<Head(s)>> \o InsertByName(p, Tail(s))
         ELSE <<p>> \o s

RECURSIVE sorted(_)
sorted(s) == IF s = <<>> THEN <<>> ELSE InsertByName(Head(s), sorted(Tail(s)))

RECURSIVE MapSummaryLine(_)
MapSummaryLine(s) ==
    IF s = <<>> THEN <<>> ELSE <<summary_line(Head(s))>> \o MapSummaryLine(Tail(s))

Blank == [kind |-> ""]

HeaderLine(n) == [kind |-> "### Detected changes", count |-> n]

FooterLine(a, r, u, n) ==
    [kind |-> "*(footer)*", added |-> a, removed |-> r, updated |-> u, not_changed |-> n]

\* format_comment with the header counting every record
format_comment_all(packages) ==
    LET added_      == sorted(SelectSeq(packages, added))
        removed_    == sorted(SelectSeq(packages, removed))
        updated_    == sorted(SelectSeq(packages, updated))
        not_changed_ == sorted(SelectSeq(packages, not_changed))
        all         == added_ \o removed_ \o updated_
    IN  IF Len(all) = 0 THEN NoComment
        ELSE <<HeaderLine(Len(packages)), Blank>>
             \o MapSummaryLine(all)
             \o <<Blank, FooterLine(Len(added_), Len(removed_), Len(updated_),
                                    Len(not_changed_))>>

\* format_comment with the three sorted() calls of lines 82-84 lost
format_comment_unsorted(packages) ==
    LET added_      == SelectSeq(packages, added)
        removed_    == SelectSeq(packages, removed)
        updated_    == SelectSeq(packages, updated)
        not_changed_ == sorted(SelectSeq(packages, not_changed))
        all         == added_ \o removed_ \o updated_
    IN  IF Len(all) = 0 THEN NoComment
        ELSE <<HeaderLine(Len(all)), Blank>>
             \o MapSummaryLine(all)
             \o <<Blank, FooterLine(Len(added_), Len(removed_), Len(updated_),
                                    Len(not_changed_))>>

format_comment(packages) ==
    LET added_      == sorted(SelectSeq(packages, added))
        removed_    == sorted(SelectSeq(packages, removed))
        updated_    == sorted(SelectSeq(packages, updated))
        not_changed_ == sorted(SelectSeq(packages, not_changed))
        all         == added_ \o removed_ \o updated_
    IN  IF Len(all) = 0 THEN NoComment
        ELSE <<HeaderLine(Len(all)), Blank>>
             \o MapSummaryLine(all)
             \o <<Blank, FooterLine(Len(added_), Len(removed_), Len(updated_),
                                    Len(not_changed_))>>

\* ------------------------------------------------------------ github.py
MAGIC_BOT_USER_ID == 41898282

\* "<!-- posted by Github Action nborrmann/diff-poetry-lock -->\n\n": the
\* marker line and the empty line after it
MAGIC_COMMENT_IDENTIFIER ==
    <<[kind |-> "<!-- posted by Github Action nborrmann/diff-poetry-lock -->"], Blank>>

\* the page size list_comments asks for and compares a page's length with
PER_PAGE == 100

\* the accounts that write comments: the Actions bot and one other account
\* (a personal access token's owner, a reviewer)
Users == {MAGIC_BOT_USER_ID, 583231}

OtherUser == CHOOSE u \in Users : u # MAGIC_BOT_USER_ID

GithubComment(id, body, user) == [id_ |-> id, body |-> body, user |-> user]

\* Python None for existing_comment: GithubComment | None
NoExisting == [kind |-> "None"]

\* str.startswith
startswith(s, prefix) ==
    Len(s) >= Len(prefix) /\ SubSeq(s, 1, Len(prefix)) = prefix

is_bot_comment(c) ==
    startswith(c.body, MAGIC_COMMENT_IDENTIFIER) /\ c.user = MAGIC_BOT_USER_ID

\* truth value of a str | None that is modelled as a string (pr_num)
Truthy(s) == s # None /\ s # ""

\* truth value of a comment (str | None as lines): None and "" are falsy
TruthyText(t) == t # NoComment /\ t # <<>>

\* --- the remote: what the GitHub REST API does with a request
Min(a, b) == IF a <= b THEN a ELSE b

\* GET .../issues/{pr}/comments?per_page=PER_PAGE&page=page
RemotePage(store, pg) ==
    SubSeq(store, (pg - 1) * PER_PAGE + 1, Min(pg * PER_PAGE, Len(store)))

\* the requests that change the pull request's comments
PostCall(body) == [op |-> "POST comment", body |-> body]

PatchCall(id, body) == [op |-> "PATCH comment", id |-> id, body |-> body]

DeleteCall(id) == [op |-> "DELETE comment", id |-> id]

IsMutation(call) == call.op \in {"POST comment", "PATCH comment", "DELETE comment"}

\* the comment list after the remote served one request: a created comment
\* gets a fresh id and the authenticated account as its author and goes last;
\* an edited comment keeps its id, author and place; a deleted one is gone
RemoteApply(store, call, id, user) ==
    IF call.op = "POST comment"
    THEN Append(store, GithubComment(id, call.body, user))
    ELSE IF call.op = "PATCH comment"
    THEN [i \in 1..Len(store) |->
             IF store[i].id_ = call.id THEN [store[i] EXCEPT !.body = call.body]
             ELSE store[i]]
    ELSE IF call.op = "DELETE comment"
    THEN LET Keep(c) == c.id_ # call.id IN SelectSeq(store, Keep)
    ELSE store

\* --- GithubApi: each method as the requests it sends
post_comment_api(comment, pr) ==
    IF ~TruthyText(comment) THEN <<>>
    ELSE IF ~Truthy(pr) THEN <<>>
    ELSE <<PostCall(MAGIC_COMMENT_IDENTIFIER \o comment)>>

update_comment(comment_id, comment) ==
    <<PatchCall(comment_id, MAGIC_COMMENT_IDENTIFIER \o comment)>>

delete_comment(comment_id) == <<DeleteCall(comment_id)>>

upsert_comment_nomarker(existing_comment, comment, pr) ==
    IF existing_comment = NoExisting /\ comment = NoComment THEN <<>>
    ELSE IF existing_comment = NoExisting /\ comment # NoComment
    THEN post_comment_api(comment, pr)
    ELSE IF existing_comment # NoExisting /\ comment = NoComment
    THEN delete_comment(existing_comment.id_)
    ELSE IF existing_comment.body = comment
         THEN <<>>
         ELSE update_comment(existing_comment.id_, comment)

upsert_comment(existing_comment, comment, pr) ==
    IF existing_comment = NoExisting /\ comment = NoComment THEN <<>>
    ELSE IF existing_comment = NoExisting /\ comment # NoComment
    THEN post_comment_api(comment, pr)
    ELSE IF existing_comment # NoExisting /\ comment = NoComment
    THEN delete_comment(existing_comment.id_)
    ELSE IF existing_comment.body = MAGIC_COMMENT_IDENTIFIER \o comment
         THEN <<>>
         ELSE update_comment(existing_comment.id_, comment)

\* GET .../contents/{lockfile_path}?ref=ref: 404 raises FileNotFoundError
Missing == <<[kind |-> "404"]>>

get_file_ignore404(file) == [raised |-> FALSE, content |-> IF file = Missing THEN <<>> ELSE file]

get_file(file) ==
    IF file = Missing THEN [raised |-> TRUE, content |-> <<>>]
    ELSE [raised |-> FALSE, content |-> file]

\* GET .../pulls?head=org:branch&state=open: the first open pull request's
\* number as a string, or ""
PR_NUMBER == "7"

find_pr_for_branch(open) == IF open THEN PR_NUMBER ELSE ""

\* ------------------------------------------------------------ settings.py
\* VelaSettings.pr_num: find_pr_for_branch(ref) or None
VelaPrNum(open) ==
    IF Truthy(find_pr_for_branch(open)) THEN find_pr_for_branch(open) ELSE None

\* GitHubActionsSettings.pr_num: ref.split("/")[2] of refs/pull/7/merge
GitHubActionsPrNum == PR_NUMBER

SettingsPrNum(kind, open) ==
    IF kind = "Vela" THEN VelaPrNum(open) ELSE GitHubActionsPrNum

\* pr_num is a property without a setter in Settings and in both settings
\* classes (pydantic BaseSettings rejects the unknown field name first):
\* the statement settings.pr_num = ... raises
HasPrNumSetter(kind) == FALSE

\* ------------------------------------------------------------ state
VARIABLES
    comments,           \* remote: the pull request's comments, in listing order
    next_id,            \* remote: the id the next created comment gets
    token_user,         \* remote: the account settings.token authenticates as
    settings_kind,      \* which Settings class the CI environment selects
    open_pr,            \* remote: an open pull request exists for the head ref
    base_file,          \* remote: the lockfile at base_ref (Missing: 404)
    head_file,          \* remote: the lockfile at ref (Missing: 404)
    pc,                 \* where the run (main / do_diff) stands
    pr_num,             \* settings.pr_num as do_diff read it
    base_packages,      \* do_diff locals
    head_packages,
    packages,
    summary,
    page,               \* list_comments locals
    page_comments,
    all_comments,
    existing_comments,  \* post_comment locals
    existing_comment,
    calls,              \* the requests this run has sent, in order
    action,             \* what upsert_comment did in this run
    runs,               \* runs started so far
    start_comments,     \* history: comments when this run started
    prev_action,        \* history: action / summary of the last run before
    prev_summary        \*   this one that reached upsert_comment

vars == <<comments, next_id, token_user, settings_kind, open_pr, base_file,
          head_file, pc, pr_num, base_packages, head_packages, packages,
          summary, page, page_comments, all_comments, existing_comments,
          existing_comment, calls, action, runs, start_comments, prev_action,
          prev_summary>>

remoteVars == <<comments, next_id, token_user, settings_kind, open_pr,
                base_file, head_file>>

historyVars == <<runs, start_comments, prev_action, prev_summary>>

listVars == <<page, page_comments, all_comments, existing_comments>>

\* comments = None in list_comments, before the first page
NotFetched == <<[kind |-> "None"]>>

\* ------------------------------------------------------------ inputs
Pkg(n, v) == [pretty_name |-> n, full_pretty_version |-> v]

\* the lockfiles the runs of Spec find at a ref: LockB holds LockA's
\* packages in another order, LockC differs from both in every way
LockA == <<Pkg(1, "1.0"), Pkg(2, "1.0")>>

LockB == <<Pkg(2, "1.0"), Pkg(1, "1.0")>>

LockC == <<Pkg(1, "2.0"), Pkg(3, "1.0")>>

RepoLockfiles == {LockA, LockB, LockC}

\* what a pull request's comments start as in Spec: a reviewer's or the
\* bot's plain text, and tracking comments of earlier runs under the Actions
\* bot's token whose summary is out of date
PlainBody == <<[kind |-> "text"]>>

StaleBody == MAGIC_COMMENT_IDENTIFIER \o <<[kind |-> "text"]>>

InitialKinds ==
    {[body |-> PlainBody, user |-> u] : u \in Users}
        \cup {[body |-> StaleBody, user |-> MAGIC_BOT_USER_ID]}

\* reviewers' comments that come before them: none, or one short of a page,
\* so that the comments after them lie on both sides of the page boundary
Padding(m) == [i \in 1..m |-> GithubComment(i, PlainBody, OtherUser)]

InitialStores ==
    UNION {{Padding(m) \o [i \in 1..n |-> GithubComment(m + i, k[i].body, k[i].user)] :
                k \in [1..n -> InitialKinds], m \in {0, PER_PAGE - 1}} :
           n \in 0..MaxComments}

ActionOf(sent) ==
    IF sent = <<>> THEN "none"
    ELSE IF sent[1].op = "POST comment" THEN "create"
    ELSE IF sent[1].op = "PATCH comment" THEN "update"
    ELSE "delete"

RECURSIVE ApplyAll(_, _, _, _)
ApplyAll(store, sent, id, user) ==
    IF sent = <<>> THEN store
    ELSE ApplyAll(RemoteApply(store, Head(sent), id, user), Tail(sent), id + 1, user)

Posts(sent) == LET IsPost(c) == c.op = "POST comment" IN Len(SelectSeq(sent, IsPost))

\* ------------------------------------------------------------ the run
LocalsInit ==
    /\ pr_num = None
    /\ base_packages = <<>>
    /\ head_packages = <<>>
    /\ packages = <<>>
    /\ summary = NoComment
    /\ page = 0
    /\ page_comments = NotFetched
    /\ all_comments = <<>>
    /\ existing_comments = <<>>
    /\ existing_comment = NoExisting
    /\ calls = <<>>
    /\ action = "unset"

Init ==
    /\ comments \in InitialStores
    /\ next_id = Len(comments) + 1
    /\ token_user \in Users
    /\ settings_kind \in {"GitHubActions", "Vela"}
    /\ open_pr = TRUE
    /\ base_file = Missing
    /\ head_file = Missing
    /\ pc = "idle"
    /\ LocalsInit
    /\ runs = 0
    /\ start_comments = comments
    /\ prev_action = "unset"
    /\ prev_summary = NoComment

\* a CI invocation: main() with the settings of the environment.  The
\* pull request event of GitHub Actions always has its pull request.
StartRun ==
    /\ pc \in {"idle", "done", "error"}
    /\ runs < MaxRuns
    /\ \E open \in BOOLEAN, b, h \in RepoLockfiles \cup {Missing} :
          /\ settings_kind = "GitHubActions" => open
          /\ open_pr' = open
          /\ base_file' = b
          /\ head_file' = h
    /\ pc' = "resolve_pr"
    /\ pr_num' = None
    /\ base_packages' = <<>>
    /\ head_packages' = <<>>
    /\ packages' = <<>>
    /\ summary' = NoComment
    /\ page' = 0
    /\ page_comments' = NotFetched
    /\ all_comments' = <<>>
    /\ existing_comments' = <<>>
    /\ existing_comment' = NoExisting
    /\ calls' = <<>>
    /\ action' = "unset"
    /\ runs' = runs + 1
    /\ start_comments' = comments
    /\ prev_action' = IF action # "unset" THEN action ELSE prev_action
    /\ prev_summary' = IF action # "unset" THEN summary ELSE prev_summary
    /\ UNCHANGED <<comments, next_id, token_user, settings_kind>>

\* do_diff, lines 116-131: read settings.pr_num (VelaSettings looks the pull
\* request up on the first read and caches it); if it is falsy look it up
\* and assign it, which raises
ResolvePr ==
    /\ pc = "resolve_pr"
    /\ LET read   == SettingsPrNum(settings_kind, open_pr)
           lookup == IF settings_kind = "Vela" THEN <<[op |-> "GET pulls"]>> ELSE <<>>
       IN  IF Truthy(read)
           THEN /\ pr_num' = read
                /\ calls' = calls \o lookup
                /\ pc' = "load_base"
           ELSE /\ calls' = calls \o lookup \o <<[op |-> "GET pulls"]>>
                /\ IF HasPrNumSetter(settings_kind)
                   THEN /\ pr_num' = find_pr_for_branch(open_pr)
                        /\ pc' = "load_base"
                   ELSE /\ pr_num' = read
                        /\ pc' = "error"
    /\ UNCHANGED <<remoteVars, historyVars, listVars, base_packages,
                   head_packages, packages, summary, existing_comment, action>>

\* do_diff, line 134: load_lockfile(api, settings.base_ref)
LoadBase ==
    /\ pc = "load_base"
    /\ calls' = Append(calls, [op |-> "GET contents", ref |-> "base_ref"])
    /\ LET r == get_file(base_file)
       IN  IF r.raised
           THEN /\ pc' = "error"
                /\ UNCHANGED base_packages
           ELSE /\ pc' = "load_head"
                /\ base_packages' = r.content
    /\ UNCHANGED <<remoteVars, historyVars, listVars, pr_num, head_packages,
                   packages, summary, existing_comment, action>>

\* do_diff, line 138: load_lockfile(api, settings.ref)
LoadHead ==
    /\ pc = "load_head"
    /\ calls' = Append(calls, [op |-> "GET contents", ref |-> "ref"])
    /\ LET r == get_file(head_file)
       IN  IF r.raised
           THEN /\ pc' = "error"
                /\ UNCHANGED head_packages
           ELSE /\ pc' = "diff"
                /\ head_packages' = r.content
    /\ UNCHANGED <<remoteVars, historyVars, listVars, pr_num, base_packages,
                   packages, summary, existing_comment, action>>

\* do_diff, line 142
ComputeDiff ==
    /\ pc = "diff"
    /\ packages' = diff(base_packages, head_packages)
    /\ pc' = "format"
    /\ UNCHANGED <<remoteVars, historyVars, listVars, pr_num, base_packages,
                   head_packages, summary, existing_comment, calls, action>>

\* do_diff, line 143
FormatComment ==
    /\ pc = "format"
    /\ summary' = format_comment(packages)
    /\ pc' = "post_check"
    /\ UNCHANGED <<remoteVars, historyVars, listVars, pr_num, base_packages,
                   head_packages, packages, existing_comment, calls, action>>

\* do_diff, lines 153-157
PostCheck ==
    /\ pc = "post_check"
    /\ pc' = IF Truthy(pr_num) THEN "list_start" ELSE "done"
    /\ UNCHANGED <<remoteVars, historyVars, listVars, pr_num, base_packages,
                   head_packages, packages, summary, existing_comment, calls,
                   action>>

\* list_comments, line 81: the while condition
MorePages_first_only(fetched) == fetched = NotFetched

MorePages(fetched) == fetched = NotFetched \/ Len(fetched) = PER_PAGE

\* list_comments, lines 76-80
ListStart ==
    /\ pc = "list_start"
    /\ IF ~Truthy(pr_num)
       THEN /\ existing_comments' = <<>>
            /\ pc' = "listed"
            /\ UNCHANGED <<page, page_comments, all_comments>>
       ELSE /\ all_comments' = <<>>
            /\ page_comments' = NotFetched
            /\ page' = 1
            /\ pc' = "list_page"
            /\ UNCHANGED existing_comments
    /\ UNCHANGED <<remoteVars, historyVars, pr_num, base_packages,
                   head_packages, packages, summary, existing_comment, calls,
                   action>>

\* list_comments, lines 81-91: one turn of the while loop
ListPage ==
    /\ pc = "list_page"
    /\ MorePages(page_comments)
    /\ calls' = Append(calls, [op |-> "GET comments", per_page |-> PER_PAGE,
                               page |-> page])
    /\ page_comments' = RemotePage(comments, page)
    /\ all_comments' = all_comments \o RemotePage(comments, page)
    /\ page' = page + 1
    /\ UNCHANGED <<remoteVars, historyVars, pc, pr_num, base_packages,
                   head_packages, packages, summary, existing_comments,
                   existing_comment, action>>

\* list_comments, line 92: the loop is over
ListReturn ==
    /\ pc = "list_page"
    /\ ~MorePages(page_comments)
    /\ existing_comments' = SelectSeq(all_comments, is_bot_comment)
    /\ pc' = "listed"
    /\ UNCHANGED <<remoteVars, historyVars, page, page_comments, all_comments,
                   pr_num, base_packages, head_packages, packages, summary,
                   existing_comment, calls, action>>

\* post_comment (run_poetry.py), line 77
first_existing_last(listed) ==
    IF listed # <<>> THEN listed[Len(listed)] ELSE NoExisting

first_existing(listed) == IF listed # <<>> THEN listed[1] ELSE NoExisting

\* post_comment (run_poetry.py), lines 74-78, with upsert_comment and the
\* request it sends
Upsert ==
    /\ pc = "listed"
    /\ LET existing == first_existing(existing_comments)
           sent     == upsert_comment(existing, summary, pr_num)
       IN  /\ existing_comment' = existing
           /\ calls' = calls \o sent
           /\ action' = ActionOf(sent)
           /\ comments' = ApplyAll(comments, sent, next_id, token_user)
           /\ next_id' = next_id + Posts(sent)
    /\ pc' = "done"
    /\ UNCHANGED <<token_user, settings_kind, open_pr, base_file, head_file,
                   historyVars, listVars, pr_num, base_packages, head_packages,
                   packages, summary>>

Next ==
    \/ StartRun
    \/ ResolvePr
    \/ LoadBase
    \/ LoadHead
    \/ ComputeDiff
    \/ FormatComment
    \/ PostCheck
    \/ ListStart
    \/ ListPage
    \/ ListReturn
    \/ Upsert

Spec == Init /\ [][Next]_vars

\* ------------------------------------------------------------ SpecFormat
\* diff and format_comment on every pair of package lists up to MaxPkgs
\* entries (repeated names included), as do_diff applies them
InitFormat ==
    /\ comments = <<>>
    /\ next_id = 1
    /\ token_user = MAGIC_BOT_USER_ID
    /\ settings_kind = "GitHubActions"
    /\ open_pr = TRUE
    /\ base_packages \in PackageLists
    /\ head_packages \in PackageLists
    /\ base_file = base_packages
    /\ head_file = head_packages
    /\ pc = "diff"
    /\ pr_num = PR_NUMBER
    /\ packages = <<>>
    /\ summary = NoComment
    /\ page = 0
    /\ page_comments = NotFetched
    /\ all_comments = <<>>
    /\ existing_comments = <<>>
    /\ existing_comment = NoExisting
    /\ calls = <<>>
    /\ action = "unset"
    /\ runs = 1
    /\ start_comments = <<>>
    /\ prev_action = "unset"
    /\ prev_summary = NoComment

NextFormat == ComputeDiff \/ FormatComment

SpecFormat == InitFormat /\ [][NextFormat]_vars

\* ------------------------------------------------------------ SpecList
\* list_comments called on its own, with and without a pull-request number,
\* on comment lists that fill up to MaxFullPages pages of PER_PAGE.  All
\* comments are a reviewer's plain text but those at the places that matter
\* to paging: the first, the last of page one, the first of page two, the last.
ListedSizes ==
    {q * PER_PAGE + r : q \in 0..MaxFullPages, r \in {0, 1, PER_PAGE - 1}}

MarkedPlaces(n) == {1, PER_PAGE, PER_PAGE + 1, n} \cap (1..n)

ListedKinds ==
    [body : {PlainBody, StaleBody}, user : Users]

ListedStores ==
    UNION {{[i \in 1..n |->
                IF i \in MarkedPlaces(n)
                THEN GithubComment(i, k[i].body, k[i].user)
                ELSE GithubComment(i, PlainBody, OtherUser)] :
            k \in [MarkedPlaces(n) -> ListedKinds]} : n \in ListedSizes}

InitList ==
    /\ comments \in ListedStores
    /\ next_id = Len(comments) + 1
    /\ token_user = MAGIC_BOT_USER_ID
    /\ settings_kind = "Vela"
    /\ pr_num \in {None, "", PR_NUMBER}
    /\ open_pr = Truthy(pr_num)
    /\ base_file = Missing
    /\ head_file = Missing
    /\ pc = "list_start"
    /\ base_packages = <<>>
    /\ head_packages = <<>>
    /\ packages = <<>>
    /\ summary = NoComment
    /\ page = 0
    /\ page_comments = NotFetched
    /\ all_comments = <<>>
    /\ existing_comments = <<>>
    /\ existing_comment = NoExisting
    /\ calls = <<>>
    /\ action = "unset"
    /\ runs = 1
    /\ start_comments = comments
    /\ prev_action = "unset"
    /\ prev_summary = NoComment

NextList == ListStart \/ ListPage \/ ListReturn

SpecList == InitList /\ [][NextList]_vars

\* ============================================================ properties
Range(f) == {f[i] : i \in DOMAIN f}

\* the requests of this run that change the pull request's comments
Mutations == SelectSeq(calls, IsMutation)

\* the run is between its start and its end
Running == pc \notin {"idle", "done", "error"}

RunStep ==
    \/ ResolvePr \/ LoadBase \/ LoadHead \/ ComputeDiff \/ FormatComment
    \/ PostCheck \/ ListStart \/ ListPage \/ ListReturn \/ Upsert

\* the run reached upsert_comment and returned from it
Reconciled == pc = "done" /\ action # "unset"

\* ------------------------------------------------------------ C5
VersionIn(pkgs, name) ==
    IF \E i \in 1..Len(pkgs) : pkgs[i].pretty_name = name
    THEN pkgs[CHOOSE i \in 1..Len(pkgs) : pkgs[i].pretty_name = name].full_pretty_version
    ELSE None

NamesOf(pkgs) == {pkgs[i].pretty_name : i \in 1..Len(pkgs)}

OnlyNew(p) == p.old_version = None /\ p.new_version # None

OnlyOld(p) == p.old_version # None /\ p.new_version = None

BothDiffer(p) ==
    p.old_version # None /\ p.new_version # None /\ p.old_version # p.new_version

BothEqual(p) ==
    p.old_version # None /\ p.new_version # None /\ p.old_version = p.new_version

Count(b) == IF b THEN 1 ELSE 0

\* C5: for package lists old and new with unique names, diff(old, new) holds
\* exactly one record per name of old or new and no other record, each with
\* the versions the name has in old and in new; every record has a version
\* on at least one side and is exactly one of added (only new), removed
\* (only old), updated (both, different), unchanged (both, equal).  (That
\* equal inputs give equal records is how an operator is evaluated, and is
\* not part of what is checked.)
C5_DiffClassification ==
    (pc \in {"format", "post_check"}
        /\ UniqueNames(base_packages) /\ UniqueNames(head_packages))
    => /\ {packages[i].name : i \in 1..Len(packages)}
            = NamesOf(base_packages) \cup NamesOf(head_packages)
       /\ \A i, j \in 1..Len(packages) : packages[i].name = packages[j].name => i = j
       /\ \A i \in 1..Len(packages) :
            LET p == packages[i] IN
            /\ p.old_version = VersionIn(base_packages, p.name)
            /\ p.new_version = VersionIn(head_packages, p.name)
            /\ p.old_version # None \/ p.new_version # None
            /\ Count(added(p)) + Count(removed(p)) + Count(updated(p))
                  + Count(not_changed(p)) = 1
            /\ added(p) <=> OnlyNew(p)
            /\ removed(p) <=> OnlyOld(p)
            /\ updated(p) <=> BothDiffer(p)
            /\ not_changed(p) <=> BothEqual(p)

\* a diff with an updated, a removed and an added package
C5_Witness ==
    /\ pc = "format"
    /\ UniqueNames(base_packages) /\ UniqueNames(head_packages)
    /\ \E i, j, k \in 1..Len(packages) :
          updated(packages[i]) /\ removed(packages[j]) /\ added(packages[k])

\* ------------------------------------------------------------ C7
NumChanged ==
    Cardinality({i \in 1..Len(packages) : ~BothEqual(packages[i])})

NumOnlyNew == Cardinality({i \in 1..Len(packages) : OnlyNew(packages[i])})

NumOnlyOld == Cardinality({i \in 1..Len(packages) : OnlyOld(packages[i])})

NumBothDiffer == Cardinality({i \in 1..Len(packages) : BothDiffer(packages[i])})

NumBothEqual == Cardinality({i \in 1..Len(packages) : BothEqual(packages[i])})

\* C7: whenever format_comment returns a body, the count in its header is
\* the number of added, removed and updated records, it has that many
\* entry lines (between the header and its empty line and the empty line
\* and the footer), and the footer's four counts are the numbers of added,
\* removed, updated and unchanged records and sum to the number of records.
C7_FormatterCounts ==
    (pc = "post_check" /\ summary # NoComment)
    => LET header == summary[1]
           footer == summary[Len(summary)]
       IN  /\ header.kind = "### Detected changes"
           /\ header.count = NumChanged
           /\ Len(summary) - 4 = NumChanged
           /\ \A i \in 3..(Len(summary) - 2) :
                  summary[i].kind \in {"Added", "Removed", "Updated"}
           /\ footer.added = NumOnlyNew
           /\ footer.removed = NumOnlyOld
           /\ footer.updated = NumBothDiffer
           /\ footer.not_changed = NumBothEqual
           /\ footer.added + footer.removed + footer.updated + footer.not_changed
                  = Len(packages)

\* a body for records of which one is unchanged and one is not
C7_Witness ==
    /\ pc = "post_check"
    /\ summary # NoComment
    /\ \E i, j \in 1..Len(packages) :
          BothEqual(packages[i]) /\ ~BothEqual(packages[j])

\* ------------------------------------------------------------ C1
\* C1: if the last run that reconciled created or updated the tracking
\* comment, and this run lists the comments again and reconciles with the
\* same summary body, then this run's action is none and it sends no
\* create, update or delete request.
C1_ReconcilerIdempotence ==
    (Reconciled /\ prev_action \in {"create", "update"} /\ prev_summary = summary)
    => (action = "none" /\ Mutations = <<>>)

\* ------------------------------------------------------------ C2
\* C2: for every combination of an existing comment present or absent and a
\* summary body present or absent, upsert_comment sends at most one request
\* that changes the comments, and exactly the one of the table: none when
\* both are absent; POST of TrackingMarker + body when only the body is
\* present; DELETE of existing.id when only the existing comment is present;
\* none when both are present and existing.body = TrackingMarker + body;
\* PATCH of existing.id with TrackingMarker + body when they differ.
C2_DecisionTable ==
    Reconciled
    => LET e == existing_comment
           b == summary
       IN  /\ Len(Mutations) <= 1
           /\ (e = NoExisting /\ b = NoComment) => Mutations = <<>>
           /\ (e = NoExisting /\ b # NoComment)
                 => Mutations = <<PostCall(MAGIC_COMMENT_IDENTIFIER \o b)>>
           /\ (e # NoExisting /\ b = NoComment)
                 => Mutations = <<DeleteCall(e.id_)>>
           /\ (e # NoExisting /\ b # NoComment
                   /\ e.body = MAGIC_COMMENT_IDENTIFIER \o b)
                 => Mutations = <<>>
           /\ (e # NoExisting /\ b # NoComment
                   /\ e.body # MAGIC_COMMENT_IDENTIFIER \o b)
                 => Mutations = <<PatchCall(e.id_, MAGIC_COMMENT_IDENTIFIER \o b)>>

\* the row of equal bodies: an existing comment that holds the marker and
\* this run's summary, and nothing sent
C2_Witness ==
    /\ Reconciled
    /\ existing_comment # NoExisting
    /\ summary # NoComment
    /\ existing_comment.body = MAGIC_COMMENT_IDENTIFIER \o summary
    /\ action = "none"

\* ------------------------------------------------------------ C3
GetContents(ref) == [op |-> "GET contents", ref |-> ref]

\* C3: a run whose settings give no pull-request number and whose lookup of
\* an open pull request for the head ref finds none still fetches both
\* lockfiles and diffs them, lists, creates, updates and deletes no
\* comment, and ends successfully.
C3_NoPrTargetSucceeds ==
    (pc \in {"done", "error"}
        /\ ~Truthy(SettingsPrNum(settings_kind, open_pr))
        /\ base_file # Missing /\ head_file # Missing)
    => /\ pc = "done"
       /\ GetContents("base_ref") \in Range(calls)
       /\ GetContents("ref") \in Range(calls)
       /\ packages = diff(base_file, head_file)
       /\ \A i \in 1..Len(calls) : calls[i].op # "GET comments" /\ ~IsMutation(calls[i])

\* ------------------------------------------------------------ C4
\* C4: if the lockfile does not exist at the base ref or at the head ref,
\* the run never ends successfully and never reaches the comments: it goes
\* on until it ends with an error, and at every point of it no comment has
\* been created, updated or deleted.
C4_MissingLockfileFatal ==
    (runs > 0 /\ (base_file = Missing \/ head_file = Missing))
    => /\ pc \notin {"done", "list_start", "list_page", "listed"}
       /\ Mutations = <<>>
       /\ comments = start_comments
       /\ Running => ENABLED RunStep

\* the head lockfile is missing, the base lockfile and the pull request are
\* there, and the run has ended with the error of the head fetch
C4_Witness ==
    /\ pc = "error"
    /\ Truthy(pr_num)
    /\ base_file # Missing
    /\ head_file = Missing
    /\ calls[Len(calls)] = GetContents("ref")

\* ------------------------------------------------------------ C6
SamePairs(old, new) == Range(old) = Range(new)

\* a tracking comment as the glossary has it: the body starts with the
\* TrackingMarker
HasMarker(c) ==
    /\ Len(c.body) >= Len(MAGIC_COMMENT_IDENTIFIER)
    /\ \A i \in 1..Len(MAGIC_COMMENT_IDENTIFIER) : c.body[i] = MAGIC_COMMENT_IDENTIFIER[i]

Tracking(store) == SelectSeq(store, HasMarker)

\* C6: format_comment returns None when every record is unchanged (also for
\* no records) and a non-empty body when a record is added, removed or
\* updated; and a run whose two lockfiles hold the same (name, version)
\* pairs creates and updates no comment and, if the pull request had a
\* tracking comment when it started, deletes one.
C6_FormatterNoOp ==
    /\ pc \in {"post_check", "list_start", "list_page", "listed", "done"}
       => /\ (\A i \in 1..Len(packages) : BothEqual(packages[i])) => summary = NoComment
          /\ (\E i \in 1..Len(packages) : ~BothEqual(packages[i]))
                => (summary # NoComment /\ summary # <<>>)
    /\ (Reconciled /\ SamePairs(base_packages, head_packages))
       => /\ action \notin {"create", "update"}
          /\ Tracking(start_comments) # <<>>
                => \E c \in Range(Tracking(start_comments)) :
                      /\ Mutations = <<DeleteCall(c.id_)>>
                      /\ c \notin Range(comments)

\* ------------------------------------------------------------ C8
\* C8: when a run starts on a pull request with at most one comment whose
\* body starts with the TrackingMarker, then after it has reconciled the
\* pull request holds at most one such comment, holds one exactly when the
\* run's summary body is present, and that comment's body is the
\* TrackingMarker followed by the summary body.  (No action of Spec but the
\* runs touches the comments, so this is the step of the induction over any
\* sequence of runs.)
C8_SingleTrackingComment ==
    (Reconciled /\ Len(Tracking(start_comments)) <= 1)
    => /\ Len(Tracking(comments)) <= 1
       /\ (Len(Tracking(comments)) = 1) <=> (summary # NoComment)
       /\ \A c \in Range(Tracking(comments)) :
             c.body = MAGIC_COMMENT_IDENTIFIER \o summary

\* ------------------------------------------------------------ C9
\* C9: when the listing returns more than one tracking comment, the first
\* of the listing is the existing comment the reconciler is given, every
\* request that changes a comment names that one, the run goes on to end
\* successfully, and every other comment the pull request had when the run
\* started, the other tracking comments among them, is there unchanged.
C9_OnlyFirstTouched ==
    (Len(existing_comments) > 1)
    => /\ pc \in {"listed", "done"}
       /\ pc = "listed" => ENABLED Upsert
       /\ pc = "done"
            => /\ existing_comment = existing_comments[1]
               /\ \A i \in 1..Len(Mutations) :
                     /\ Mutations[i].op # "POST comment"
                     /\ Mutations[i].id = existing_comments[1].id_
               /\ \A i \in 2..Len(existing_comments) :
                     existing_comments[i] \in Range(comments)
               /\ \A c \in Range(start_comments) :
                     c.id_ # existing_comments[1].id_ => c \in Range(comments)

\* two tracking comments listed, the summary absent, and the run over: the
\* first was deleted
C9_Witness ==
    /\ pc = "done"
    /\ Len(existing_comments) > 1
    /\ action = "delete"
    /\ existing_comments[1] \notin Range(comments)

\* ------------------------------------------------------------ C10
NumPages == Len(comments) \div PER_PAGE + 1

PageRequest(i) == [op |-> "GET comments", per_page |-> PER_PAGE, page |-> i]

IsByBotWithMarker(c) ==
    /\ Len(c.body) >= Len(MAGIC_COMMENT_IDENTIFIER)
    /\ \A i \in 1..Len(MAGIC_COMMENT_IDENTIFIER) : c.body[i] = MAGIC_COMMENT_IDENTIFIER[i]
    /\ c.user = MAGIC_BOT_USER_ID

\* the paging of list_comments: with no pull-request number no request and
\* the empty list; else the requests are pages 1, 2, 3, ... of PER_PAGE in
\* this order, every page before the last requested is full and the last
\* requested is not (it is empty when the total is a multiple of PER_PAGE),
\* and the loop ends
PagingAsClaimed ==
    /\ (pc = "listed" /\ ~Truthy(pr_num))
          => (calls = <<>> /\ existing_comments = <<>>)
    /\ (pc = "listed" /\ Truthy(pr_num))
          => /\ Len(calls) = NumPages
             /\ \A i \in 1..Len(calls) : calls[i] = PageRequest(i)
             /\ \A i \in 1..(Len(calls) - 1) :
                   Len(comments) >= i * PER_PAGE
             /\ Len(comments) < Len(calls) * PER_PAGE
             /\ Len(comments) % PER_PAGE = 0
                   => Len(comments) = (Len(calls) - 1) * PER_PAGE
    /\ pc = "list_page" => page <= NumPages + 1
    /\ pc # "listed" => ENABLED NextList

CategoryRank(line) ==
    IF line.kind = "Added" THEN 1 ELSE IF line.kind = "Removed" THEN 2 ELSE 3

\* the entry line the spec gives a changed record
EntryOf(p) ==
    IF OnlyNew(p) THEN [kind |-> "Added", name |-> p.name, new |-> p.new_version]
    ELSE IF OnlyOld(p) THEN [kind |-> "Removed", name |-> p.name, old |-> p.old_version]
    ELSE [kind |-> "Updated", name |-> p.name, old |-> p.old_version,
          new |-> p.new_version]

\* the lists that hold the same records as s, each once, in any order
Reorderings(s) ==
    {q \in [1..Len(s) -> Range(s)] : \A i \in 1..Len(s) : \E j \in 1..Len(s) : q[j] = s[i]}

\* C11: in every body format_comment returns, the entry lines are those of
\* the added, removed and updated records, the added ones first, then the
\* removed, then the updated, and within a category in ascending order of
\* the package name; and format_comment returns the same body for every
\* permutation of the records.
C11_LineOrder ==
    (pc = "post_check" /\ summary # NoComment)
    => LET first == 3
           last  == Len(summary) - 2
       IN  /\ {summary[i] : i \in first..last}
                 = {EntryOf(packages[k]) :
                       k \in {k \in 1..Len(packages) : ~BothEqual(packages[k])}}
           /\ \A i, j \in first..last :
                 i < j =>
                    /\ CategoryRank(summary[i]) <= CategoryRank(summary[j])
                    /\ CategoryRank(summary[i]) = CategoryRank(summary[j])
                          => summary[i].name < summary[j].name
           /\ \A q \in Reorderings(packages) : format_comment(q) = summary

\* records in which a removed one comes first and two added ones follow in
\* descending order of name: the body has them as added, added, removed
C11_Witness ==
    /\ pc = "post_check"
    /\ summary # NoComment
    /\ \E i, j, k \in 1..Len(packages) :
          /\ i < j /\ j < k
          /\ OnlyOld(packages[i]) /\ OnlyNew(packages[j]) /\ OnlyNew(packages[k])
          /\ packages[j].name > packages[k].name
          /\ packages[i].name < packages[k].name

====
